---- MODULE Spec2Model ----
(***************************************************************************)
(* Model of the GSM/PPP modem driver, drivers/modem/gsm_ppp.c.             *)
(*                                                                         *)
(* Three execution contexts are modelled:                                  *)
(*   "wq"  - the system work queue running gsm_configure_work, whose       *)
(*           handler is gsm_configure or mux_setup;                        *)
(*   "api" - an application thread calling the public entry points         *)
(*           (gsm_ppp_start/stop/resume/restart, gsm_set_apn,              *)
(*           gsm_set_volume);                                              *)
(*   the RX thread gsm_rx, which dispatches one received line at a time.   *)
(* The modem and the UART mux are the environment.                         *)
(*                                                                         *)
(* modem_cmd_send, modem_cmd_send_nolock and the line dispatcher live in   *)
(* modem_cmd_handler.c, which is not among the sources; they are modelled  *)
(* from the description of the Command Correlator.                         *)
(***************************************************************************)
EXTENDS Integers, Sequences, FiniteSets, TLC

VARIABLES
    gsm,          \* struct gsm_modem: state, flags, channel handles, iface binding
    work,         \* gsm->gsm_configure_work: bound handler and pending submission
    pc,           \* position of each context: [wq |-> ..., api |-> ...]
    setup_i,      \* index into setup_cmds of the sequencer (0: not in the sequence)
    snd,          \* the send each context has in progress
    cmdh,         \* cmd_handler_data and sem_response
    wire,         \* what was last written to the transport
    env,          \* the scenario: how much the environment may do (never changes)
    mux,          \* UART mux collaborator: attach callbacks not yet delivered
    minfo,        \* struct modem_info (mdm_apn, mdm_mccmnc)
    apn_set,      \* static bool apn_set of gsm_set_apn
    cgdcont_cmd,  \* static char cgdcont_cmd[150]
    clvl_cmd,     \* static char clvl_cmd[15]
    ppp,          \* PPP collaborator: static api pointer set, carrier state
    api,          \* the application thread: call in progress, last status
    h             \* history (ghost) variables used only by the properties

vars == <<gsm, work, pc, setup_i, snd, cmdh, wire, env, mux, minfo, apn_set,
          cgdcont_cmd, clvl_cmd, ppp, api, h>>

----------------------------------------------------------------------------
(* Bounds of the model *)

\* environment failures injected in one behaviour (timeouts, ERROR replies,
\* allocation/attach/binding failures, late or unsolicited lines)
MaxFaults == 2
\* public API calls made in one behaviour
MaxApiCalls == 2
\* attach callbacks delivered beyond the one that completes an attach
MaxExtraCb == 1
\* calls of the configuration setters made in one behaviour
MaxSetCalls == 2
\* lines dispatched in one behaviour of the response handlers on their own
MaxRxLines == 3

----------------------------------------------------------------------------
(* Program constants *)

STATE_INIT == 0
STATE_CONTROL_CHANNEL == 0
STATE_PPP_CHANNEL == 1
STATE_AT_CHANNEL == 2
STATE_DONE == 3

DLCI_CONTROL == 0
DLCI_PPP == 1
DLCI_AT == 2

MDM_MANUFACTURER_LENGTH == 10
MDM_MODEL_LENGTH == 16
MDM_REVISION_LENGTH == 64
MDM_IMEI_LENGTH == 16
MDM_APN_LENGTH == 100
MDM_MCCMNC_LENGTH == 7

CONFIG_GSM_MUX == TRUE
CONFIG_MODEM_GSM_MANUAL_MCCMNO == ""

\* return codes
RetOk == "0"
EINVAL == "-EINVAL"
EAGAIN == "-EAGAIN"
EEXIST == "-EEXIST"
ETIMEDOUT == "-ETIMEDOUT"
IsErr(r) == r # RetOk

Ctx == {"wq", "api"}

----------------------------------------------------------------------------
(* Command texts.  A command is a format and its argument (a sequence of   *)
(* characters); a literal has no argument.  A buffer never written holds   *)
(* the empty string.                                                       *)

Lit(s) == [fmt |-> s, arg |-> <<>>]
EmptyCmd == Lit("")
Fmt(f, a) == [fmt |-> f, arg |-> a]

\* the response tables a send can register
response_cmds == <<"OK", "ERROR", "CONNECT">>

\* setup_cmds[]: the send text and the handler table of each entry
setup_cmds ==
    << [send |-> Lit("ATE0"),       tbl |-> "none"],
       [send |-> Lit("ATH"),        tbl |-> "none"],
       [send |-> Lit("AT+CMEE=1"),  tbl |-> "none"],
       [send |-> Lit("AT+COLP=1"),  tbl |-> "none"],
       [send |-> Lit("AT+CLIP=1"),  tbl |-> "none"],
       [send |-> clvl_cmd,          tbl |-> "none"],
       [send |-> Lit("AT+QTONEDET=1"), tbl |-> "none"],
       [send |-> Lit("AT+QURCCFG=\"urcport\",\"uart1\""), tbl |-> "none"],
       [send |-> Lit("AT+QSPN"),    tbl |-> "networkinfo"],
       [send |-> Lit("AT+CGMI"),    tbl |-> "manufacturer"],
       [send |-> Lit("AT+CGMM"),    tbl |-> "model"],
       [send |-> Lit("AT+CGMR"),    tbl |-> "revision"],
       [send |-> Lit("AT+CGSN"),    tbl |-> "imei"],
       [send |-> Lit("AT+CREG=0"),  tbl |-> "none"],
       [send |-> cgdcont_cmd,       tbl |-> "none"] >>

connect_cmds == << [send |-> Lit("ATD*99#"), tbl |-> "none"] >>


----------------------------------------------------------------------------
(* Values *)

NoSend == [phase |-> "none", cmd |-> EmptyCmd, tbl |-> "none", lock |-> FALSE]
NoDone == [ctx |-> "none", cmd |-> EmptyCmd, ret |-> RetOk, sigFor |-> "none"]

\* the token that ends the modem's reply to a command
FinalTok(cmd) == IF cmd.fmt \in {"ATD*99#", "ATO"} THEN "CONNECT" ELSE "OK"

\* the scenarios: what the environment may do in one behaviour.  Each one
\* spends its budget on one kind of event, so that the bounds can be chosen
\* large enough for every kind:
\*   "faults"  one start, then failures of the modem and of the mux;
\*   "unsol"   one start, failures and lines nobody asked for;
\*   "race"    the public entry points called while the supervisor runs;
\*   "extra"   one start and attach callbacks delivered more than once;
\*   "config"  one start and the configuration setters;
\*   "noppp"   one start while no PPP device is registered.
Scenarios ==
    { [name |-> "faults", calls |-> 1, sets |-> 0, faults |-> MaxFaults,
       extra |-> 0, unsol |-> FALSE, ppp |-> TRUE],
      [name |-> "unsol", calls |-> 1, sets |-> 0, faults |-> MaxFaults - 1,
       extra |-> 0, unsol |-> TRUE, ppp |-> TRUE],
      [name |-> "race", calls |-> MaxApiCalls, sets |-> 0, faults |-> 0,
       extra |-> 0, unsol |-> FALSE, ppp |-> TRUE],
      [name |-> "extra", calls |-> 1, sets |-> 0, faults |-> 0,
       extra |-> MaxExtraCb, unsol |-> FALSE, ppp |-> TRUE],
      [name |-> "config", calls |-> 1, sets |-> MaxSetCalls, faults |-> 0,
       extra |-> 0, unsol |-> FALSE, ppp |-> TRUE],
      [name |-> "noppp", calls |-> 1, sets |-> 0, faults |-> 0,
       extra |-> 0, unsol |-> FALSE, ppp |-> FALSE] }

\* characters
Digits == <<"0", "1", "2", "3", "4", "5", "6", "7", "8", "9">>
IsDigit(c) == \E i \in 1..10 : Digits[i] = c
DigitVal(c) == (CHOOSE i \in 1..10 : Digits[i] = c) - 1

\* atoi(): the value of the leading decimal digits (no sign or blanks occur)
RECURSIVE AtoiAcc(_, _)
AtoiAcc(s, acc) ==
    IF s = <<>> \/ ~IsDigit(Head(s)) THEN acc
    ELSE AtoiAcc(Tail(s), acc * 10 + DigitVal(Head(s)))
atoi(s) == AtoiAcc(s, 0)

\* strnlen(s, n)
strnlen(s, n) == IF Len(s) < n THEN Len(s) ELSE n

----------------------------------------------------------------------------
(* Initial state: gsm_init has run (sem_response initialised to 0 with     *)
(* limit 1, eol "\r", response_cmds registered, RX thread started); the    *)
(* static buffers are zeroed.                                              *)

k_sem_init_count == 0

InitEnv(e) ==
    /\ gsm = [state |-> STATE_INIT, mux_enabled |-> FALSE,
              mux_setup_done |-> FALSE, setup_done |-> FALSE,
              control_dev |-> FALSE, ppp_dev |-> FALSE, at_dev |-> FALSE,
              iface_dev |-> "uart"]
    /\ work = [handler |-> "none", pending |-> "none", by |-> "none"]
    /\ pc = [wq |-> "idle", api |-> "idle"]
    /\ setup_i = 0
    /\ snd = [c \in Ctx |-> NoSend]
    /\ cmdh = [tx_lock |-> "none", sem |-> k_sem_init_count, sigFor |-> "none",
               last_error |-> RetOk, cmds |-> "none", eol |-> "\r"]
    /\ wire = [cmd |-> EmptyCmd, eol |-> "\r", ctx |-> "none", live |-> FALSE,
               st |-> "idle", late |-> "none"]
    /\ env = e
    /\ mux = [cb |-> {}, att |-> {}, extra |-> 0]
    /\ minfo = [mdm_manufacturer |-> <<>>, mdm_model |-> <<>>,
                mdm_revision |-> <<>>, mdm_imei |-> <<>>,
                mdm_apn |-> <<>>, mdm_mccmnc |-> <<>>]
    /\ apn_set = FALSE
    /\ cgdcont_cmd = EmptyCmd
    /\ clvl_cmd = EmptyCmd
    /\ ppp = [present |-> e.ppp, api |-> FALSE, carrier |-> FALSE]
    /\ api = [op |-> "none", restart |-> FALSE, calls |-> 0, sets |-> 0,
              ret |-> RetOk]
    /\ h = [faults |-> 0, lastDone |-> NoDone, both |-> FALSE,
            visits |-> <<>>, clean |-> FALSE, doneRuns |-> 0, doneSub |-> 0,
            muxFailed |-> FALSE, failedIn |-> STATE_INIT, fails |-> 0,
            probeTO |-> 0, probeRS |-> 0, apnBy |-> "none",
            lastApn |-> [arg |-> <<>>, ret |-> RetOk, was_set |-> FALSE,
                         same |-> TRUE],
            lastVol |-> [arg |-> -1, ret |-> RetOk, same |-> TRUE, acc |-> -1],
            lastNet |-> [txt |-> <<>>, lookup |-> -1], rxLines |-> 0,
            att |-> "none"]

Init == \E e \in Scenarios : InitEnv(e)

----------------------------------------------------------------------------
(* Command Correlator: modem_cmd_send / modem_cmd_send_nolock.             *)
(*                                                                         *)
(* A send first waits for the transmit lock (not the _nolock variant),     *)
(* registers its response table, discards stale completion state, writes   *)
(* the command followed by the current end-of-line marker, and then waits  *)
(* on the completion signal up to its timeout.                             *)

\* a send that has just been started: it waits for the transmit lock
NewSend(cmd, tbl, lock) ==
    [phase |-> "lock", cmd |-> cmd, tbl |-> tbl, lock |-> lock]

\* modem_cmd_send: the send holds the transmit lock for the whole exchange
modem_cmd_send(cmd, tbl) == NewSend(cmd, tbl, TRUE)

\* modem_cmd_send_nolock: the same exchange without taking the lock
modem_cmd_send_nolock(cmd, tbl) == NewSend(cmd, tbl, FALSE)

\* whether context c may write now
CanWrite(c) == snd[c].lock => cmdh.tx_lock = "none"

\* lock taken, table registered, stale signal discarded, command written
SendWrite(c) ==
    /\ snd[c].phase = "lock"
    /\ CanWrite(c)
    /\ snd' = [snd EXCEPT ![c].phase = "wait"]
    /\ cmdh' = [cmdh EXCEPT !.tx_lock = IF snd[c].lock THEN c ELSE @,
                            !.cmds = snd[c].tbl,
                            !.sem = 0, !.sigFor = "none"]
    /\ wire' = [cmd |-> snd[c].cmd, eol |-> cmdh.eol, ctx |-> c, live |-> TRUE,
                st |-> "new",
                late |-> IF wire.st # "idle" THEN FinalTok(wire.cmd)
                         ELSE wire.late]
    /\ h' = [h EXCEPT !.both = \E d \in Ctx \ {c} : snd[d].phase = "wait"]
    /\ UNCHANGED <<gsm, work, pc, setup_i, env, mux, minfo, apn_set,
                   cgdcont_cmd, clvl_cmd, ppp, api>>

\* the result the waiting send returns now: the handler's code if the
\* completion signal was released, Timeout otherwise
SendRet == IF cmdh.sem = 1 THEN cmdh.last_error ELSE ETIMEDOUT

\* the exchange of context c ends and the caller goes on with `next` (a new
\* send or NoSend): the signal is consumed, the table is unregistered and
\* the lock released.  A timeout is an injected failure.
EndSend(c, next) ==
    /\ snd[c].phase = "wait"
    /\ cmdh.sem = 0 => h.faults < env.faults
    /\ snd' = [snd EXCEPT ![c] = next]
    /\ cmdh' = [cmdh EXCEPT !.tx_lock = IF snd[c].lock THEN "none" ELSE @,
                            !.cmds = "none",
                            !.sem = 0, !.sigFor = "none"]
    /\ wire' = IF wire.ctx = c THEN [wire EXCEPT !.live = FALSE] ELSE wire
    /\ UNCHANGED env

\* history kept at the end of an exchange
HDone(c) ==
    [h EXCEPT !.lastDone = [ctx |-> c, cmd |-> snd[c].cmd, ret |-> SendRet,
                            sigFor |-> cmdh.sigFor],
              !.faults = IF cmdh.sem = 0 THEN @ + 1 ELSE @]

----------------------------------------------------------------------------
(* The delayed work item *)

\* k_delayed_work_submit: (re)schedules the single work item
k_delayed_work_submit(w, delay, by) == [w EXCEPT !.pending = delay, !.by = by]

\* k_delayed_work_init: binds the handler
k_delayed_work_init(w, handler) == [w EXCEPT !.handler = handler]

\* (variant) the work item stays queued while its handler runs
Taken_stays(w) == w

\* the work item is taken off the queue when its handler starts
Taken(w) == [w EXCEPT !.pending = "none"]

----------------------------------------------------------------------------
(* gsm_finalize_connection *)

MuxOn(g) == CONFIG_GSM_MUX /\ g.mux_enabled

\* the operator-selection command of gsm_setup_mccmno
CopsCmd ==
    IF CONFIG_MODEM_GSM_MANUAL_MCCMNO # ""
    THEN Lit("AT+COPS=1,2,\"" \o CONFIG_MODEM_GSM_MANUAL_MCCMNO \o "\"")
    ELSE Lit("AT+COPS=0,0")

\* entry of gsm_finalize_connection: the first send it makes and the
\* position it then waits at
FinalizeFirstSend(g) ==
    IF MuxOn(g) THEN modem_cmd_send(Lit("AT"), "response")
    ELSE modem_cmd_send(CopsCmd, "none")
FinalizeFirstPc(g) == IF MuxOn(g) THEN "fin_at" ELSE "fin_cops"

\* (variant) the resubmission is given up after one timeout of the probe
FinalizeRetry_ceiling(w) ==
    IF h.probeTO >= 1 THEN w
    ELSE k_delayed_work_submit(w, "K_SECONDS(1)", "retry")

\* (variant) the resubmission is made without delay
FinalizeRetry_nowait(w) == k_delayed_work_submit(w, "K_NO_WAIT", "retry")

\* a failing step of gsm_finalize_connection: resubmit after the fixed interval
FinalizeRetry(w) == k_delayed_work_submit(w, "K_SECONDS(1)", "retry")

\* the probe of gsm_finalize_connection has completed
FinAtDone ==
    /\ pc.wq = "fin_at"
    /\ LET ret == SendRet IN
       IF IsErr(ret)
       THEN /\ EndSend("wq", NoSend)
            /\ work' = FinalizeRetry(work)
            /\ pc' = [pc EXCEPT !.wq = "idle"]
            /\ h' = [HDone("wq") EXCEPT
                       !.probeTO = IF ret = ETIMEDOUT THEN @ + 1 ELSE @,
                       !.probeRS = IF ret = ETIMEDOUT
                                   THEN (IF work'.pending = "K_SECONDS(1)"
                                         THEN @ + 1 ELSE @)
                                   ELSE @,
                       !.doneSub = IF work.handler = "mux_setup"
                                      /\ gsm.state = STATE_DONE
                                   THEN @ + 1 ELSE @]
       ELSE /\ EndSend("wq", modem_cmd_send(CopsCmd, "none"))
            /\ pc' = [pc EXCEPT !.wq = "fin_cops"]
            /\ h' = [HDone("wq") EXCEPT !.probeTO = 0, !.probeRS = 0]
            /\ UNCHANGED work
    /\ UNCHANGED <<gsm, setup_i, mux, minfo, apn_set, cgdcont_cmd, clvl_cmd,
                   ppp, api>>

\* gsm_setup_mccmno has completed; its result is ignored and the sequencer
\* starts with setup_cmds[0]
FinCopsDone ==
    /\ pc.wq = "fin_cops"
    /\ EndSend("wq", modem_cmd_send(setup_cmds[1].send, setup_cmds[1].tbl))
    /\ pc' = [pc EXCEPT !.wq = "fin_setup"]
    /\ setup_i' = 1
    /\ h' = HDone("wq")
    /\ UNCHANGED <<gsm, work, mux, minfo, apn_set, cgdcont_cmd, clvl_cmd,
                   ppp, api>>

\* history: what the attach handler saw is forgotten when the run ends
AttEnd(hh) == [hh EXCEPT !.att = "none"]

\* history: the resubmission makes mux_setup run again in STATE_DONE
RetryTrig(hh) ==
    [hh EXCEPT !.doneSub = IF work.handler = "mux_setup" /\ gsm.state = STATE_DONE
                           THEN @ + 1 ELSE @]

\* one command of modem_cmd_handler_setup_cmds(setup_cmds) has completed
FinSetupDone ==
    /\ pc.wq = "fin_setup"
    /\ LET ret == SendRet IN
       IF IsErr(ret)
       THEN /\ EndSend("wq", NoSend)
            /\ work' = FinalizeRetry(work)
            /\ pc' = [pc EXCEPT !.wq = "idle"]
            /\ setup_i' = 0
            /\ h' = RetryTrig(HDone("wq"))
       ELSE IF setup_i < Len(setup_cmds)
       THEN /\ EndSend("wq", modem_cmd_send(setup_cmds[setup_i + 1].send,
                                            setup_cmds[setup_i + 1].tbl))
            /\ setup_i' = setup_i + 1
            /\ h' = HDone("wq")
            /\ UNCHANGED <<work, pc>>
       ELSE /\ EndSend("wq", modem_cmd_send_nolock(Lit("AT+CGATT?"),
                                                   "check_attached"))
            /\ pc' = [pc EXCEPT !.wq = "fin_cgatt"]
            /\ setup_i' = 0
            /\ h' = [HDone("wq") EXCEPT !.att = "none"]
            /\ UNCHANGED work
    /\ UNCHANGED <<gsm, mux, minfo, apn_set, cgdcont_cmd, clvl_cmd, ppp, api>>

\* the packet-attach query has completed
FinCgattDone ==
    /\ pc.wq = "fin_cgatt"
    /\ LET ret == SendRet IN
       IF IsErr(ret)
       THEN /\ EndSend("wq", NoSend)
            /\ work' = FinalizeRetry(work)
            /\ pc' = [pc EXCEPT !.wq = "idle"]
            /\ h' = AttEnd(RetryTrig(HDone("wq")))
       ELSE /\ EndSend("wq", modem_cmd_send(connect_cmds[1].send,
                                            connect_cmds[1].tbl))
            /\ pc' = [pc EXCEPT !.wq = "fin_dial"]
            /\ h' = HDone("wq")
            /\ UNCHANGED work
    /\ UNCHANGED <<gsm, setup_i, mux, minfo, apn_set, cgdcont_cmd, clvl_cmd,
                   ppp, api>>

\* set_ppp_carrier_on: the first activation calls the PPP driver's start,
\* later ones the L2 enable; without the PPP device nothing happens
set_ppp_carrier_on(p) ==
    IF ~p.present THEN p
    ELSE IF ~p.api THEN [p EXCEPT !.api = TRUE, !.carrier = TRUE]
    ELSE [p EXCEPT !.carrier = TRUE]

\* the dial command has completed
FinDialDone ==
    /\ pc.wq = "fin_dial"
    /\ LET ret == SendRet IN
       \/ /\ IsErr(ret)
          /\ EndSend("wq", NoSend)
          /\ work' = FinalizeRetry(work)
          /\ pc' = [pc EXCEPT !.wq = "idle"]
          /\ h' = AttEnd(RetryTrig(HDone("wq")))
          /\ UNCHANGED <<gsm, ppp>>
       \/ /\ ~IsErr(ret)
          /\ ~MuxOn(gsm)
          /\ EndSend("wq", NoSend)
          /\ gsm' = [gsm EXCEPT !.setup_done = TRUE]
          /\ ppp' = set_ppp_carrier_on(ppp)
          /\ pc' = [pc EXCEPT !.wq = "idle"]
          /\ h' = AttEnd(HDone("wq"))
          /\ UNCHANGED work
       \* the AT channel was never allocated: gsm->at_dev->name reads
       \* through a null pointer; the read faults, or it yields a name no
       \* device has and the binding fails
       \/ /\ ~IsErr(ret)
          /\ MuxOn(gsm)
          /\ ~gsm.at_dev
          /\ EndSend("wq", NoSend)
          /\ gsm' = [gsm EXCEPT !.setup_done = TRUE]
          /\ ppp' = set_ppp_carrier_on(ppp)
          /\ \E to \in {"fault", "idle"} : pc' = [pc EXCEPT !.wq = to]
          /\ h' = AttEnd(HDone("wq"))
          /\ UNCHANGED work
       \* the command interface is re-bound to the AT channel and probed
       \/ /\ ~IsErr(ret)
          /\ MuxOn(gsm)
          /\ gsm.at_dev
          /\ EndSend("wq", modem_cmd_send(Lit("AT"), "response"))
          /\ gsm' = [gsm EXCEPT !.setup_done = TRUE, !.iface_dev = "at"]
          /\ ppp' = set_ppp_carrier_on(ppp)
          /\ pc' = [pc EXCEPT !.wq = "fin_attest"]
          /\ h' = AttEnd(HDone("wq"))
          /\ UNCHANGED work
       \* modem_iface_uart_init_dev(at_dev) fails
       \/ /\ ~IsErr(ret)
          /\ MuxOn(gsm)
          /\ gsm.at_dev
          /\ h.faults < env.faults
          /\ EndSend("wq", NoSend)
          /\ gsm' = [gsm EXCEPT !.setup_done = TRUE]
          /\ ppp' = set_ppp_carrier_on(ppp)
          /\ pc' = [pc EXCEPT !.wq = "idle"]
          /\ h' = AttEnd([HDone("wq") EXCEPT !.faults = @ + 1])
          /\ UNCHANGED work
    /\ UNCHANGED <<setup_i, mux, minfo, apn_set, cgdcont_cmd, clvl_cmd, api>>

\* the verification probe over the AT channel has completed; its result is
\* only logged
FinAtTestDone ==
    /\ pc.wq = "fin_attest"
    /\ EndSend("wq", NoSend)
    /\ pc' = [pc EXCEPT !.wq = "idle"]
    /\ h' = HDone("wq")
    /\ UNCHANGED <<gsm, work, setup_i, mux, minfo, apn_set, cgdcont_cmd,
                   clvl_cmd, ppp, api>>

----------------------------------------------------------------------------
(* gsm_configure *)

\* the work item runs gsm_configure: it probes the modem with "AT"
GsmConfigure ==
    /\ pc.wq = "idle"
    /\ work.pending # "none"
    /\ work.handler = "gsm_configure"
    /\ work' = Taken(work)
    /\ snd' = [snd EXCEPT !["wq"] = modem_cmd_send(Lit("AT"), "response")]
    /\ pc' = [pc EXCEPT !.wq = "cfg_at"]
    /\ UNCHANGED <<gsm, setup_i, cmdh, wire, env, mux, minfo, apn_set,
                   cgdcont_cmd, clvl_cmd, ppp, api, h>>

\* the mux-enable command of mux_enable (generic modem: "AT+CMUX=0")
CmuxCmd == Lit("AT+CMUX=0")

\* the probe of gsm_configure has completed
CfgAtDone ==
    /\ pc.wq = "cfg_at"
    /\ LET ret == SendRet IN
       IF IsErr(ret)
       THEN /\ EndSend("wq", NoSend)
            /\ work' = k_delayed_work_submit(work, "K_NO_WAIT", "configure")
            /\ pc' = [pc EXCEPT !.wq = "idle"]
            /\ UNCHANGED gsm
       ELSE IF CONFIG_GSM_MUX /\ ~gsm.mux_enabled
       THEN /\ EndSend("wq", modem_cmd_send(CmuxCmd, "response"))
            /\ gsm' = [gsm EXCEPT !.mux_setup_done = FALSE]
            /\ pc' = [pc EXCEPT !.wq = "cfg_cmux"]
            /\ UNCHANGED work
       ELSE /\ EndSend("wq", FinalizeFirstSend(gsm))
            /\ pc' = [pc EXCEPT !.wq = FinalizeFirstPc(gsm)]
            /\ UNCHANGED <<gsm, work>>
    /\ h' = HDone("wq")
    /\ UNCHANGED <<setup_i, mux, minfo, apn_set, cgdcont_cmd, clvl_cmd, ppp, api>>

\* mux_enable has completed: on success the channel bring-up starts
CfgCmuxDone ==
    /\ pc.wq = "cfg_cmux"
    /\ EndSend("wq", NoSend)
    /\ pc' = [pc EXCEPT !.wq = "idle"]
    /\ LET ret == SendRet IN
       IF ret = RetOk
       THEN /\ gsm' = [gsm EXCEPT !.mux_enabled = TRUE, !.state = STATE_INIT]
            /\ work' = k_delayed_work_submit(
                          k_delayed_work_init(work, "mux_setup"),
                          "K_NO_WAIT", "configure")
            /\ h' = [HDone("wq") EXCEPT !.visits = <<>>, !.clean = TRUE,
                                        !.doneRuns = 0, !.doneSub = 0,
                                        !.muxFailed = FALSE]
       ELSE /\ gsm' = [gsm EXCEPT !.mux_enabled = FALSE]
            /\ work' = k_delayed_work_submit(work, "K_NO_WAIT", "configure")
            /\ h' = HDone("wq")
    /\ UNCHANGED <<setup_i, mux, minfo, apn_set, cgdcont_cmd, clvl_cmd, ppp, api>>

----------------------------------------------------------------------------
(* Channel bring-up: mux_setup, mux_attach, mux_attach_cb *)

\* the DLCI mux_setup attaches in each state
DlciOf(st) ==
    CASE st = STATE_CONTROL_CHANNEL -> DLCI_CONTROL
      [] st = STATE_PPP_CHANNEL -> DLCI_PPP
      [] st = STATE_AT_CHANNEL -> DLCI_AT

\* (variant) the PPP channel state is skipped
NextState_skip(st) ==
    CASE st = STATE_CONTROL_CHANNEL -> STATE_AT_CHANNEL
      [] st = STATE_PPP_CHANNEL -> STATE_AT_CHANNEL
      [] st = STATE_AT_CHANNEL -> STATE_DONE

\* the state mux_setup sets once the channel of state st has been allocated
NextState(st) ==
    CASE st = STATE_CONTROL_CHANNEL -> STATE_PPP_CHANNEL
      [] st = STATE_PPP_CHANNEL -> STATE_AT_CHANNEL
      [] st = STATE_AT_CHANNEL -> STATE_DONE

\* the channel handle mux_setup assigns in state st
WithDev(g, st, dev) ==
    CASE st = STATE_CONTROL_CHANNEL -> [g EXCEPT !.control_dev = dev]
      [] st = STATE_PPP_CHANNEL -> [g EXCEPT !.ppp_dev = dev]
      [] st = STATE_AT_CHANNEL -> [g EXCEPT !.at_dev = dev]

\* (variant) the fail label leaves the state where it is
MuxFail_keeps(g) == [g EXCEPT !.mux_enabled = FALSE]

\* the fail label of mux_setup
MuxFail(g) == [g EXCEPT !.state = STATE_INIT, !.mux_enabled = FALSE]

\* history: a state is visited when a step of mux_setup runs in it; the
\* Done step running again while the state stays STATE_DONE is no new visit
\* of that state
Visit(hh, st, dlci) ==
    IF st = STATE_DONE /\ hh.visits # <<>>
       /\ hh.visits[Len(hh.visits)].st = STATE_DONE
    THEN hh
    ELSE [hh EXCEPT !.visits = Append(@, [st |-> st, dlci |-> dlci,
                                          by |-> work.by])]

\* history: a step of mux_setup failed in state st
Failed(hh, st) ==
    [hh EXCEPT !.clean = FALSE, !.muxFailed = TRUE, !.failedIn = st,
               !.fails = @ + 1, !.faults = @ + 1]

\* mux_setup in one of the three channel states: allocate the channel,
\* advance the state, attach the channel
MuxSetupChannel ==
    /\ pc.wq = "idle"
    /\ work.pending # "none"
    /\ work.handler = "mux_setup"
    /\ gsm.state # STATE_DONE
    /\ work' = Taken(work)
    /\ LET st == gsm.state IN
       \* uart_mux_alloc returns NULL
       \/ /\ h.faults < env.faults
          /\ gsm' = MuxFail(WithDev(gsm, st, FALSE))
          /\ h' = Failed(Visit(h, st, -1), st)
          /\ UNCHANGED mux
       \* uart_mux_attach fails
       \/ /\ h.faults < env.faults
          /\ gsm' = MuxFail([WithDev(gsm, st, TRUE) EXCEPT !.state = NextState(st)])
          /\ h' = Failed(Visit(h, st, DlciOf(st)), st)
          /\ UNCHANGED mux
       \* the channel is attached; its callback will follow
       \/ /\ gsm' = [WithDev(gsm, st, TRUE) EXCEPT !.state = NextState(st)]
          /\ mux' = [mux EXCEPT !.cb = @ \cup {DlciOf(st)}]
          /\ h' = Visit(h, st, DlciOf(st))
    /\ UNCHANGED <<pc, setup_i, snd, cmdh, wire, env, minfo, apn_set,
                   cgdcont_cmd, clvl_cmd, ppp, api>>

\* mux_setup in STATE_DONE: bind the command interface to the PPP channel
\* and call gsm_finalize_connection
MuxSetupDone ==
    /\ pc.wq = "idle"
    /\ work.pending # "none"
    /\ work.handler = "mux_setup"
    /\ gsm.state = STATE_DONE
    /\ work' = Taken(work)
    /\ \/ /\ h.faults < env.faults
          /\ gsm' = MuxFail(gsm)
          /\ h' = Failed(Visit(h, STATE_DONE, -1), STATE_DONE)
          /\ UNCHANGED <<pc, snd>>
       \/ /\ gsm' = [gsm EXCEPT !.iface_dev = "ppp"]
          /\ snd' = [snd EXCEPT !["wq"] = FinalizeFirstSend(gsm)]
          /\ pc' = [pc EXCEPT !.wq = FinalizeFirstPc(gsm)]
          /\ h' = [Visit(h, STATE_DONE, -1) EXCEPT !.doneRuns = @ + 1]
    /\ UNCHANGED <<setup_i, cmdh, wire, env, mux, minfo, apn_set,
                   cgdcont_cmd, clvl_cmd, ppp, api>>

\* mux_setup_next: the next step is scheduled, not called
mux_setup_next(w, by) == k_delayed_work_submit(w, "K_MSEC(1)", by)

CbName(dlci) ==
    CASE dlci = DLCI_CONTROL -> "cb0"
      [] dlci = DLCI_PPP -> "cb1"
      [] dlci = DLCI_AT -> "cb2"

\* history: a submission that makes mux_setup run in STATE_DONE
DoneSub(hh) ==
    [hh EXCEPT !.doneSub = IF work.handler = "mux_setup" /\ gsm.state = STATE_DONE
                           THEN @ + 1 ELSE @]

\* mux_attach_cb: the mux reports on the channel of an attach; `connected`
\* only decides whether the channel's IRQs are enabled
MuxAttachCb(dlci, connected) ==
    /\ dlci \in mux.cb
    /\ ~connected => h.faults < env.faults
    /\ mux' = [mux EXCEPT !.cb = @ \ {dlci},
                          !.att = IF connected THEN @ \cup {dlci} ELSE @]
    /\ work' = mux_setup_next(work, CbName(dlci))
    /\ h' = [DoneSub(h) EXCEPT !.clean = @ /\ connected,
                               !.faults = IF connected THEN @ ELSE @ + 1]
    /\ UNCHANGED <<gsm, pc, setup_i, snd, cmdh, wire, env, minfo, apn_set,
                   cgdcont_cmd, clvl_cmd, ppp, api>>

\* mux_attach_cb called once more for a connected channel (its DLCI closes)
MuxExtraCb(dlci) ==
    /\ mux.extra < env.extra
    /\ dlci \in mux.att
    /\ mux' = [mux EXCEPT !.extra = @ + 1, !.att = @ \ {dlci}]
    /\ work' = mux_setup_next(work, CbName(dlci))
    /\ h' = [DoneSub(h) EXCEPT !.clean = FALSE]
    /\ UNCHANGED <<gsm, pc, setup_i, snd, cmdh, wire, env, minfo, apn_set,
                   cgdcont_cmd, clvl_cmd, ppp, api>>

----------------------------------------------------------------------------
(* Configuration setters and response handlers *)

\* (variant) gsm_set_apn without the one-shot guard
gsm_set_apn_again(apn, st) ==
    LET len == strnlen(apn, MDM_APN_LENGTH) IN
    IF len = MDM_APN_LENGTH THEN [st EXCEPT !.ret = EINVAL]
    ELSE IF len = 0 THEN [st EXCEPT !.ret = RetOk]
    ELSE [ret |-> RetOk, apn_set |-> TRUE, mdm_apn |-> apn,
          cgdcont_cmd |-> Fmt("AT+CGDCONT=1,\"IP\",\"%s\"", apn)]

\* (variant) gsm_set_apn testing the one-shot guard before the empty string
gsm_set_apn_guard_first(apn, st) ==
    LET len == strnlen(apn, MDM_APN_LENGTH) IN
    IF len = MDM_APN_LENGTH THEN [st EXCEPT !.ret = EINVAL]
    ELSE IF st.apn_set THEN [st EXCEPT !.ret = EEXIST]
    ELSE IF len = 0 THEN [st EXCEPT !.ret = RetOk]
    ELSE [ret |-> RetOk, apn_set |-> TRUE, mdm_apn |-> apn,
          cgdcont_cmd |-> Fmt("AT+CGDCONT=1,\"IP\",\"%s\"", apn)]

\* gsm_set_apn: the status it returns and the values it leaves in
\* apn_set, minfo.mdm_apn and cgdcont_cmd
gsm_set_apn(apn, st) ==
    LET len == strnlen(apn, MDM_APN_LENGTH) IN
    IF len = MDM_APN_LENGTH THEN [st EXCEPT !.ret = EINVAL]
    ELSE IF len = 0 THEN [st EXCEPT !.ret = RetOk]
    ELSE IF st.apn_set THEN [st EXCEPT !.ret = EEXIST]
    ELSE [ret |-> RetOk, apn_set |-> TRUE, mdm_apn |-> apn,
          cgdcont_cmd |-> Fmt("AT+CGDCONT=1,\"IP\",\"%s\"", apn)]

\* (variant) the setter never sees the flag set
ApnState_unset == [ret |-> RetOk, apn_set |-> FALSE, mdm_apn |-> minfo.mdm_apn,
                   cgdcont_cmd |-> cgdcont_cmd]

\* the APN state gsm_set_apn works on
ApnState == [ret |-> RetOk, apn_set |-> apn_set, mdm_apn |-> minfo.mdm_apn,
             cgdcont_cmd |-> cgdcont_cmd]

\* (variant) gsm_set_volume accepting one level more
gsm_set_volume_wider(volume, cur) ==
    IF volume > 6 THEN [ret |-> EINVAL, clvl_cmd |-> cur]
    ELSE [ret |-> RetOk,
          clvl_cmd |-> Fmt("AT+CLVL=%d", <<Digits[volume + 1]>>)]

\* gsm_set_volume: the status and the value left in clvl_cmd
gsm_set_volume(volume, cur) ==
    IF volume > 5 THEN [ret |-> EINVAL, clvl_cmd |-> cur]
    ELSE [ret |-> RetOk,
          clvl_cmd |-> Fmt("AT+CLVL=%d", <<Digits[volume + 1]>>)]

\* the static country/operator -> APN table (gsm_apn.h)
apn_list == << [mcc_mcn |-> 46001, apn |-> <<"a">>],
               [mcc_mcn |-> 26201, apn |-> <<"b">>] >>

\* apn_lookup: the first entry whose code equals atoi(mccmnc), or none
apn_lookup(mccmnc) ==
    LET hits == {i \in 1..Len(apn_list) : apn_list[i].mcc_mcn = atoi(mccmnc)} IN
    IF hits = {} THEN [found |-> FALSE, apn |-> <<>>]
    ELSE [found |-> TRUE,
          apn |-> apn_list[CHOOSE i \in hits : \A j \in hits : i <= j].apn]

\* net_buf_linearize into a buffer of n bytes: at most n bytes are copied
Linearize(text, n) == SubSeq(text, 1, IF Len(text) < n THEN Len(text) ELSE n)

\* (variant) strchr instead of strrchr: the index of the first comma
LastComma_first(t) ==
    LET cs == {i \in 1..Len(t) : t[i] = ","} IN
    IF cs = {} THEN 0 ELSE CHOOSE i \in cs : \A j \in cs : i <= j

\* strrchr(t, ','): the index of the last comma of t, 0 if there is none
LastComma(t) ==
    LET cs == {i \in 1..Len(t) : t[i] = ","} IN
    IF cs = {} THEN 0 ELSE CHOOSE i \in cs : \A j \in cs : j <= i

\* the field on_cmd_atcmdinfo_networkinfo extracts: what follows the last
\* comma and the character after it, without its last character
LastField(t) ==
    LET p == LastComma(t)
        rest == SubSeq(t, p + 2, Len(t)) IN
    IF rest = <<>> THEN <<>> ELSE SubSeq(rest, 1, Len(rest) - 1)

\* strncpy(dst, src, n): at most n characters are stored
strncpy(src, n) == SubSeq(src, 1, IF Len(src) < n THEN Len(src) ELSE n)

\* on_cmd_atcmdinfo_networkinfo: the MCC-MNC it stores
NetworkInfoMccmnc(text) ==
    strncpy(LastField(Linearize(text, 99)), MDM_MCCMNC_LENGTH)

\* the values on_cmd_atcmdinfo_networkinfo may leave in mdm_mccmnc.  For a
\* line without a comma strrchr returns NULL and the handler reads from
\* address 2: what it then stores is not determined by the line
NetworkInfoOutcomes(text) ==
    IF LastComma(Linearize(text, 99)) = 0
    THEN {<<>>, <<"4", "6", "0", "0", "1">>, <<"9", "0", "1", "0", "1">>}
    ELSE {NetworkInfoMccmnc(text)}

\* what a reader of a buffer of n bytes as a C string gets: the text up to
\* the terminator, or, when all n bytes are text, these bytes and whatever
\* follows the buffer in memory
ReadCString(buf, n) ==
    IF Len(buf) < n THEN {buf} ELSE {buf, buf \o <<"7">>}

\* the completion signal is released (k_sem_give, limit 1) with the error
\* code err; `for` is the exchange the dispatched line answers (history)
Complete(ch, err, for) ==
    [ch EXCEPT !.last_error = err, !.sem = 1,
               !.sigFor = IF ch.sem = 1 THEN @ ELSE for]

\* gsm_cmd_ok (OK, CONNECT) and gsm_cmd_error (ERROR)
gsm_cmd_ok(ch, for) == Complete(ch, RetOk, for)
gsm_cmd_error(ch, for) == Complete(ch, EINVAL, for)

\* on_cmd_atcmdinfo_attached: success only for an argument equal to 1
on_cmd_atcmdinfo_attached(ch, argv, for) ==
    Complete(ch, IF argv # <<>> /\ atoi(argv) = 1 THEN RetOk ELSE EAGAIN, for)

\* the handler tables whose pattern is the empty string: they match any line
\* the default response patterns did not match
IdentityTables == {"networkinfo", "manufacturer", "model", "revision", "imei"}

\* the RX thread dispatches a received line: the default response patterns
\* first, then the table of the send in progress.  hh is the history the
\* step leaves.
RxDispatch(line, hh) ==
    LET tok == line.tok
        txt == line.arg IN
    CASE tok \in {"OK", "CONNECT"} ->
           /\ cmdh' = gsm_cmd_ok(cmdh, line.for)
           /\ h' = hh
           /\ UNCHANGED <<minfo, apn_set, cgdcont_cmd>>
      [] tok = "ERROR" ->
           /\ cmdh' = gsm_cmd_error(cmdh, line.for)
           /\ h' = hh
           /\ UNCHANGED <<minfo, apn_set, cgdcont_cmd>>
      [] tok = "+CGATT:" /\ cmdh.cmds = "check_attached" ->
           /\ cmdh' = on_cmd_atcmdinfo_attached(cmdh, txt, line.for)
           /\ h' = [hh EXCEPT !.att = IF cmdh'.last_error = RetOk
                                      THEN "one" ELSE "other"]
           /\ UNCHANGED <<minfo, apn_set, cgdcont_cmd>>
      [] tok \in {"+CGATT:", "TEXT"} /\ cmdh.cmds = "networkinfo" ->
           \E mccmnc \in NetworkInfoOutcomes(txt) :
           \E str \in ReadCString(mccmnc, MDM_MCCMNC_LENGTH) :
           LET found == apn_lookup(str)
               r == IF found.found THEN gsm_set_apn(found.apn, ApnState)
                    ELSE ApnState IN
           /\ minfo' = [minfo EXCEPT !.mdm_mccmnc = mccmnc,
                                     !.mdm_apn = r.mdm_apn]
           /\ apn_set' = r.apn_set
           /\ cgdcont_cmd' = r.cgdcont_cmd
           /\ h' = [hh EXCEPT !.apnBy = IF r.apn_set /\ ~apn_set
                                        THEN "auto" ELSE @,
                              !.lastNet = [txt |-> txt, lookup |-> atoi(str)]]
           /\ UNCHANGED cmdh
      [] tok \in {"+CGATT:", "TEXT"} /\ cmdh.cmds = "manufacturer" ->
           /\ minfo' = [minfo EXCEPT !.mdm_manufacturer =
                           Linearize(txt, MDM_MANUFACTURER_LENGTH - 1)]
           /\ h' = hh
           /\ UNCHANGED <<cmdh, apn_set, cgdcont_cmd>>
      [] tok \in {"+CGATT:", "TEXT"} /\ cmdh.cmds = "model" ->
           /\ minfo' = [minfo EXCEPT !.mdm_model =
                           Linearize(txt, MDM_MODEL_LENGTH - 1)]
           /\ h' = hh
           /\ UNCHANGED <<cmdh, apn_set, cgdcont_cmd>>
      [] tok \in {"+CGATT:", "TEXT"} /\ cmdh.cmds = "revision" ->
           /\ minfo' = [minfo EXCEPT !.mdm_revision =
                           Linearize(txt, MDM_REVISION_LENGTH - 1)]
           /\ h' = hh
           /\ UNCHANGED <<cmdh, apn_set, cgdcont_cmd>>
      [] tok \in {"+CGATT:", "TEXT"} /\ cmdh.cmds = "imei" ->
           /\ minfo' = [minfo EXCEPT !.mdm_imei =
                           Linearize(txt, MDM_IMEI_LENGTH - 1)]
           /\ h' = hh
           /\ UNCHANGED <<cmdh, apn_set, cgdcont_cmd>>
      [] OTHER ->
           /\ h' = hh
           /\ UNCHANGED <<cmdh, minfo, apn_set, cgdcont_cmd>>

----------------
(* The modem *)

Chars(n, c) == [i \in 1..n |-> c]

\* replies to AT+QSPN: the operator names and, last, the quoted MCC-MNC
NetInfoReplies ==
    { <<"+", "Q", ",", "\"", "4", "6", "0", "0", "1", "\"">>,
      <<"+", "Q", ",", "\"", "2", "6", "2", "0", "1", "\"">>,
      <<"+", "Q", ",", "\"", "9", "0", "1", "0", "1", "\"">> }

\* the information line the modem sends in reply to a command, if any
InfoLines(cmd) ==
    CASE cmd.fmt = "AT+QSPN" -> {[tok |-> "TEXT", arg |-> t, bad |-> FALSE] :
                                    t \in NetInfoReplies}
      [] cmd.fmt \in {"AT+CGMI", "AT+CGMM", "AT+CGMR", "AT+CGSN"} ->
            {[tok |-> "TEXT", arg |-> <<"i">>, bad |-> FALSE]}
      [] cmd.fmt = "AT+CGATT?" ->
            {[tok |-> "+CGATT:", arg |-> <<"1">>, bad |-> FALSE],
             [tok |-> "+CGATT:", arg |-> <<"0">>, bad |-> TRUE],
             [tok |-> "+CGATT:", arg |-> <<>>, bad |-> TRUE]}
      [] OTHER -> {}

\* the line that ends the modem's reply to a command
FinalLines(cmd) ==
    {[tok |-> FinalTok(cmd), arg |-> <<>>, bad |-> FALSE],
     [tok |-> "ERROR", arg |-> <<>>, bad |-> TRUE]}

\* the lines the modem may send next: the information line first, if the
\* command has one (a reply that skips it is a failure of the modem)
ReplyLines ==
    IF wire.st = "new" /\ InfoLines(wire.cmd) # {}
    THEN InfoLines(wire.cmd)
         \cup {[l EXCEPT !.bad = TRUE] : l \in FinalLines(wire.cmd)}
    ELSE FinalLines(wire.cmd)

\* the exchange a line of the modem's current reply answers (history)
AnswerFor == IF wire.live THEN wire.ctx ELSE "stale"

\* the modem sends the next line of its reply to the command last written,
\* and the RX thread dispatches it
ModemReply ==
    /\ wire.st # "idle"
    /\ \E l \in ReplyLines :
          /\ l.bad => h.faults < env.faults
          /\ wire' = [wire EXCEPT !.st = IF l.tok \in {"TEXT", "+CGATT:"}
                                         THEN "info" ELSE "idle",
                                  !.late = "none"]
          /\ RxDispatch([tok |-> l.tok, arg |-> l.arg, for |-> AnswerFor],
                        [h EXCEPT !.faults = IF l.bad THEN @ + 1 ELSE @])
    /\ UNCHANGED <<gsm, work, pc, setup_i, snd, env, mux, clvl_cmd, ppp, api>>

\* the line that ends the reply to an earlier command arrives only now,
\* after a later command has been written
ModemLate ==
    /\ wire.late # "none"
    /\ wire' = [wire EXCEPT !.late = "none"]
    /\ RxDispatch([tok |-> wire.late, arg |-> <<>>, for |-> "late"], h)
    /\ UNCHANGED <<gsm, work, pc, setup_i, snd, env, mux, clvl_cmd, ppp, api>>

\* the modem sends a line nobody asked for
ModemUnsolicited ==
    /\ h.faults < env.faults
    /\ env.unsol
    /\ \E l \in {[tok |-> "OK", arg |-> <<>>],
                 [tok |-> "TEXT", arg |-> <<"R", "I", "N", "G">>]} :
          RxDispatch([tok |-> l.tok, arg |-> l.arg, for |-> "unsol"],
                     [h EXCEPT !.faults = @ + 1])
    /\ UNCHANGED <<gsm, work, pc, setup_i, snd, wire, env, mux, clvl_cmd,
                   ppp, api>>

----------------
(* Public entry points, called by the application thread *)

ApiFree == pc.api = "idle" /\ api.calls < env.calls
SetFree == pc.api = "idle" /\ api.sets < env.sets

ApnInputs == {<<>>, <<"m">>, <<"n">>, Chars(MDM_APN_LENGTH, "x")}
VolumeInputs == {0, 5, 6}

\* gsm_set_apn(apn)
ApiSetApn(apn) ==
    /\ SetFree
    /\ LET r == gsm_set_apn(apn, ApnState) IN
       /\ apn_set' = r.apn_set
       /\ minfo' = [minfo EXCEPT !.mdm_apn = r.mdm_apn]
       /\ cgdcont_cmd' = r.cgdcont_cmd
       /\ api' = [api EXCEPT !.op = "set_apn", !.sets = @ + 1, !.ret = r.ret]
       /\ h' = [h EXCEPT !.apnBy = IF r.apn_set /\ ~apn_set THEN "manual" ELSE @,
                         !.lastApn = [arg |-> apn, ret |-> r.ret,
                                      was_set |-> apn_set,
                                      same |-> /\ r.apn_set = apn_set
                                               /\ r.mdm_apn = minfo.mdm_apn
                                               /\ r.cgdcont_cmd = cgdcont_cmd]]
    /\ UNCHANGED <<gsm, work, pc, setup_i, snd, cmdh, wire, env, mux,
                   clvl_cmd, ppp>>

\* gsm_set_volume(volume)
ApiSetVolume(volume) ==
    /\ SetFree
    /\ LET r == gsm_set_volume(volume, clvl_cmd) IN
       /\ clvl_cmd' = r.clvl_cmd
       /\ api' = [api EXCEPT !.op = "set_volume", !.sets = @ + 1, !.ret = r.ret]
       /\ h' = [h EXCEPT !.lastVol =
                   [arg |-> volume, ret |-> r.ret,
                    same |-> r.clvl_cmd = clvl_cmd,
                    acc |-> IF r.ret = RetOk THEN volume ELSE @.acc]]
    /\ UNCHANGED <<gsm, work, pc, setup_i, snd, cmdh, wire, env, mux, minfo,
                   apn_set, cgdcont_cmd, ppp>>

\* the tail of gsm_ppp_start once the transport is bound again: the work
\* item is bound to gsm_configure and submitted without delay
StartWork(w) ==
    k_delayed_work_submit(k_delayed_work_init(w, "gsm_configure"),
                          "K_NO_WAIT", "api")

\* gsm_ppp_start
ApiStart ==
    /\ ApiFree
    /\ api' = [api EXCEPT !.op = "start", !.calls = @ + 1, !.ret = RetOk]
    /\ \/ /\ gsm' = [gsm EXCEPT !.iface_dev = "uart"]
          /\ work' = StartWork(work)
          /\ UNCHANGED h
       \* modem_iface_uart_init_dev fails
       \/ /\ h.faults < env.faults
          /\ h' = [h EXCEPT !.faults = @ + 1]
          /\ UNCHANGED <<gsm, work>>
    /\ UNCHANGED <<pc, setup_i, snd, cmdh, wire, env, mux, minfo, apn_set,
                   cgdcont_cmd, clvl_cmd, ppp>>

\* gsm_ppp_resume: it first tries to return to data mode
ApiResume ==
    /\ ApiFree
    /\ api' = [api EXCEPT !.op = "resume", !.calls = @ + 1]
    /\ snd' = [snd EXCEPT !["api"] = modem_cmd_send(Lit("ATO"), "connect")]
    /\ pc' = [pc EXCEPT !.api = "resume_ato"]
    /\ UNCHANGED <<gsm, work, setup_i, cmdh, wire, env, mux, minfo, apn_set,
                   cgdcont_cmd, clvl_cmd, ppp, h>>

\* "ATO" has completed: on failure the dial command is sent
ResumeAtoDone ==
    /\ pc.api = "resume_ato"
    /\ LET rc == SendRet IN
       IF IsErr(rc)
       THEN /\ EndSend("api", modem_cmd_send(Lit("ATD*99#"), "connect"))
            /\ pc' = [pc EXCEPT !.api = "resume_dial"]
            /\ UNCHANGED <<ppp, api>>
       ELSE /\ EndSend("api", NoSend)
            /\ pc' = [pc EXCEPT !.api = "idle"]
            /\ ppp' = set_ppp_carrier_on(ppp)
            /\ api' = [api EXCEPT !.ret = RetOk]
    /\ h' = HDone("api")
    /\ UNCHANGED <<gsm, work, setup_i, mux, minfo, apn_set, cgdcont_cmd,
                   clvl_cmd>>

\* the dial command of gsm_ppp_resume has completed
ResumeDialDone ==
    /\ pc.api = "resume_dial"
    /\ EndSend("api", NoSend)
    /\ pc' = [pc EXCEPT !.api = "idle"]
    /\ LET rc == SendRet IN
       IF IsErr(rc)
       THEN /\ api' = [api EXCEPT !.ret = rc]
            /\ UNCHANGED ppp
       ELSE /\ api' = [api EXCEPT !.ret = RetOk]
            /\ ppp' = set_ppp_carrier_on(ppp)
    /\ h' = HDone("api")
    /\ UNCHANGED <<gsm, work, setup_i, mux, minfo, apn_set, cgdcont_cmd,
                   clvl_cmd>>

\* gsm_ppp_stop up to its sleep: the network interface is disabled and the
\* transport bound again; `restart` tells that gsm_ppp_restart is the caller
ApiStopBegin(restart) ==
    /\ ApiFree
    /\ ppp' = [ppp EXCEPT !.carrier = FALSE]
    /\ \/ /\ gsm' = [gsm EXCEPT !.iface_dev = "uart"]
          /\ api' = [api EXCEPT !.op = IF restart THEN "restart" ELSE "stop",
                                !.restart = restart, !.calls = @ + 1]
          /\ pc' = [pc EXCEPT !.api = "stop_sleep"]
          /\ UNCHANGED <<work, h>>
       \* modem_iface_uart_init_dev fails: gsm_ppp_stop returns its code;
       \* gsm_ppp_restart ignores it and goes on
       \/ /\ h.faults < env.faults
          /\ api' = [api EXCEPT !.op = IF restart THEN "restart" ELSE "stop",
                                !.restart = FALSE, !.calls = @ + 1,
                                !.ret = EINVAL]
          /\ h' = [h EXCEPT !.faults = @ + 1]
          /\ work' = IF restart /\ ppp.present THEN StartWork(work) ELSE work
          /\ gsm' = IF restart /\ ppp.present
                    THEN [gsm EXCEPT !.iface_dev = "uart"] ELSE gsm
          /\ UNCHANGED pc
    /\ UNCHANGED <<setup_i, snd, cmdh, wire, env, mux, minfo, apn_set,
                   cgdcont_cmd, clvl_cmd>>

\* gsm_ppp_stop: the terminator set before the escape sequence is sent
EscapeEol(ch) == [ch EXCEPT !.eol = ""]

\* (variant) the terminator is left empty
RestoreEol_skip(ch) == ch

\* gsm_ppp_stop: the terminator set after the exchange
RestoreEol(ch) == [ch EXCEPT !.eol = "\r"]

\* gsm_ppp_stop after its sleep: the terminator is emptied and the escape
\* sequence sent
ApiStopEscape ==
    /\ pc.api = "stop_sleep"
    /\ cmdh' = EscapeEol(cmdh)
    /\ snd' = [snd EXCEPT !["api"] = modem_cmd_send(Lit("+++"), "connect")]
    /\ pc' = [pc EXCEPT !.api = "stop_send"]
    /\ UNCHANGED <<gsm, work, setup_i, wire, env, mux, minfo, apn_set,
                   cgdcont_cmd, clvl_cmd, ppp, api, h>>

\* the escape exchange has completed: the terminator is restored and
\* gsm_ppp_stop returns; gsm_ppp_restart then stops the PPP driver and
\* calls gsm_ppp_start
ApiStopDone ==
    /\ pc.api = "stop_send"
    /\ snd["api"].phase = "wait"
    /\ cmdh.sem = 0 => h.faults < env.faults
    /\ snd' = [snd EXCEPT !["api"] = NoSend]
    /\ cmdh' = RestoreEol([cmdh EXCEPT !.tx_lock = "none", !.cmds = "none",
                                       !.sem = 0, !.sigFor = "none"])
    /\ wire' = IF wire.ctx = "api" THEN [wire EXCEPT !.live = FALSE] ELSE wire
    /\ UNCHANGED env
    /\ pc' = [pc EXCEPT !.api = "idle"]
    /\ api' = [api EXCEPT !.ret = SendRet, !.restart = FALSE]
    /\ h' = HDone("api")
    /\ IF api.restart /\ ppp.present
       THEN /\ ppp' = [ppp EXCEPT !.carrier = FALSE]
            /\ gsm' = [gsm EXCEPT !.iface_dev = "uart"]
            /\ work' = StartWork(work)
       ELSE UNCHANGED <<ppp, gsm, work>>
    /\ UNCHANGED <<setup_i, mux, minfo, apn_set, cgdcont_cmd, clvl_cmd>>

----------------------------------------------------------------------------
(* Specification *)

Next ==
    \/ \E c \in Ctx : SendWrite(c)
    \/ GsmConfigure
    \/ CfgAtDone
    \/ CfgCmuxDone
    \/ MuxSetupChannel
    \/ MuxSetupDone
    \/ \E d \in {DLCI_CONTROL, DLCI_PPP, DLCI_AT}, b \in BOOLEAN : MuxAttachCb(d, b)
    \/ \E d \in {DLCI_CONTROL, DLCI_PPP, DLCI_AT} : MuxExtraCb(d)
    \/ FinAtDone
    \/ FinCopsDone
    \/ FinSetupDone
    \/ FinCgattDone
    \/ FinDialDone
    \/ FinAtTestDone
    \/ ModemReply
    \/ ModemLate
    \/ ModemUnsolicited
    \/ \E a \in ApnInputs : ApiSetApn(a)
    \/ \E v \in VolumeInputs : ApiSetVolume(v)
    \/ ApiStart
    \/ ApiResume
    \/ ResumeAtoDone
    \/ ResumeDialDone
    \/ \E r \in BOOLEAN : ApiStopBegin(r)
    \/ ApiStopEscape
    \/ ApiStopDone

Spec == Init /\ [][Next]_vars

----------------------------------------------------------------------------
(* The response handlers on their own: the sequencer has registered any of *)
(* the identity handlers and the RX thread dispatches any of a set of      *)
(* lines.                                                                  *)

\* the lines received: network-info replies whose last field has 3, 6, 5
\* and 7 characters, and lines without a comma that are longer than the
\* identity fields
RxTexts ==
    { <<"+", "Q", ",", "\"", "3", "1", "0", "\"", ",", "\"", "4", "1", "0", "\"">>,
      <<"+", "Q", ",", "\"", "3", "1", "0", "4", "1", "0", "\"">>,
      <<"+", "Q", ",", "\"", "4", "6", "0", "0", "1", "\"">>,
      <<"+", "Q", ",", "\"", "1", "2", "3", "4", "5", "6", "7", "\"">>,
      Chars(MDM_MANUFACTURER_LENGTH, "x"),
      Chars(MDM_MODEL_LENGTH, "x"),
      Chars(MDM_REVISION_LENGTH, "x"),
      Chars(MDM_APN_LENGTH + MDM_MODEL_LENGTH, "x") }

\* nothing but the RX thread runs
RxScenario == [name |-> "rx", calls |-> 0, sets |-> 0, faults |-> 0,
               extra |-> 0, unsol |-> TRUE, ppp |-> TRUE]

\* a command of setup_cmds with the handler table t is in progress
RxExpect(t) ==
    /\ cmdh.cmds # t
    /\ cmdh' = [cmdh EXCEPT !.cmds = t]
    /\ UNCHANGED <<gsm, work, pc, setup_i, snd, wire, env, mux, minfo, apn_set,
                   cgdcont_cmd, clvl_cmd, ppp, api, h>>

\* the RX thread dispatches the line txt
RxText(txt) ==
    /\ h.rxLines < MaxRxLines
    /\ RxDispatch([tok |-> "TEXT", arg |-> txt, for |-> "unsol"],
                  [h EXCEPT !.rxLines = @ + 1])
    /\ UNCHANGED <<gsm, work, pc, setup_i, snd, wire, env, mux, clvl_cmd, ppp,
                   api>>

NextRx ==
    \/ \E t \in IdentityTables : RxExpect(t)
    \/ \E txt \in RxTexts : RxText(txt)

SpecRx == InitEnv(RxScenario) /\ [][NextRx]_vars

----------------------------------------------------------------------------
(* Properties *)

\* C1: at most one command send is outstanding at any time: no two
\* contexts have both written their command and not yet completed the
\* exchange.
C1_OneOutstanding == Cardinality({c \in Ctx : snd[c].phase = "wait"}) <= 1

\* C2: a send is never completed by a completion signal released for an
\* earlier exchange: no send returns a handler's status because of a line
\* that ends the reply to an earlier command and arrived only after the
\* later command was written.
C2_NoStaleCompletion ==
    ~(h.lastDone.ret # ETIMEDOUT /\ h.lastDone.sigFor = "late")

C4_FailureResets ==
    [][h'.fails # h.fails =>
          /\ gsm'.state = STATE_INIT
          /\ ~gsm'.mux_enabled
          /\ work'.pending = "none"
          /\ pc'.wq = "idle"
          /\ snd'["wq"] = NoSend]_vars

\* a failure in the last state, after the three channels were attached
C4_Witness ==
    /\ h.muxFailed /\ h.failedIn = STATE_DONE
    /\ gsm.state = STATE_INIT /\ ~gsm.mux_enabled

\* C5 (as stated): the Done step of mux_setup runs at most once in one
\* bring-up.
C5_DoneStepOnce == h.doneRuns <= 1

\* C5 (amended): the Done step runs at most once for each time the work
\* item is submitted while the state is Done: once for the attach callback
\* of the AT channel, once more for every resubmission by a failing step of
\* the finalization, and once more for every further attach callback.
C5_DoneStepPerSubmission == h.doneRuns <= h.doneSub

\* the Done step has run a second time in one bring-up
C5_Witness == h.doneRuns = 2 /\ h.doneSub = 2 /\ pc.wq = "fin_at"

\* C6: with the mux enabled, a timeout of the probe that opens the
\* finalization resubmits the work item with the delay of one second and
\* ends the attempt there: no other command is sent, nothing of the driver
\* state changes, and after n timeouts in a row there have been n
\* resubmissions.
C6_ProbeTimeoutReschedules ==
    [][(pc.wq = "fin_at" /\ pc'.wq # "fin_at" /\ MuxOn(gsm)
        /\ h'.lastDone.ret = ETIMEDOUT) =>
          /\ work'.pending = "K_SECONDS(1)"
          /\ pc'.wq = "idle"
          /\ snd'["wq"] = NoSend
          /\ gsm' = gsm /\ ppp' = ppp /\ setup_i' = setup_i
          /\ h'.probeRS = h'.probeTO]_vars

\* as many timeouts of the probe in a row as the bound allows, each
\* followed by a resubmission
C6_Witness ==
    /\ h.probeTO = MaxFaults /\ h.probeRS = MaxFaults
    /\ work.pending = "K_SECONDS(1)"

\* C7: the driver is never left with a failed channel bring-up, the carrier
\* off, no step of the work item pending or running, and no attach callback
\* owed by the mux.
C7_NeverStranded ==
    ~(/\ h.muxFailed
      /\ ~ppp.carrier
      /\ work.pending = "none"
      /\ pc.wq = "idle"
      /\ mux.cb = {})

\* C8 (as stated): once a gsm_set_apn call has committed an APN, every later
\* call returns -EEXIST whatever its argument.
C8_LaterCallAlreadySet ==
    (h.apnBy = "manual" /\ h.lastApn.was_set) => h.lastApn.ret = EEXIST

\* C8 (amended): once a gsm_set_apn call has committed an APN, every later
\* call whose argument is not empty and is shorter than MDM_APN_LENGTH
\* returns -EEXIST.
C8_LaterValidCallAlreadySet ==
    (/\ h.apnBy = "manual" /\ h.lastApn.was_set
     /\ h.lastApn.arg # <<>>
     /\ Len(h.lastApn.arg) < MDM_APN_LENGTH) => h.lastApn.ret = EEXIST

\* a second call with another APN after a manual commit
C8_Witness ==
    /\ h.apnBy = "manual" /\ h.lastApn.was_set
    /\ h.lastApn.arg = <<"n">> /\ minfo.mdm_apn = <<"m">>
    /\ h.lastApn.ret = EEXIST

\* C9: gsm_set_apn called with the empty string returns 0 and leaves the
\* stored APN, the flag and the PDP-context command as they were, whether or
\* not an APN is committed.
C9_EmptyIsNoop ==
    h.lastApn.arg = <<>> => (h.lastApn.ret = RetOk /\ h.lastApn.same)

\* the empty string passed after an APN was committed
C9_Witness ==
    /\ api.op = "set_apn" /\ h.lastApn.arg = <<>> /\ h.lastApn.was_set
    /\ apn_set /\ minfo.mdm_apn # <<>>

C11_VolumeCommand ==
    /\ (h.lastVol.arg >= 0 /\ h.lastVol.arg <= 5) =>
          /\ h.lastVol.ret = RetOk
          /\ h.lastVol.acc = h.lastVol.arg
    /\ h.lastVol.arg > 5 => (h.lastVol.ret = EINVAL /\ h.lastVol.same)
    /\ IF h.lastVol.acc = -1 THEN clvl_cmd = EmptyCmd
       ELSE /\ clvl_cmd.fmt = "AT+CLVL=%d"
            /\ Len(clvl_cmd.arg) = 1
            /\ atoi(clvl_cmd.arg) = h.lastVol.acc

\* a level above 5 refused after level 5 was accepted
C11_Witness ==
    /\ h.lastVol.arg = 6 /\ h.lastVol.acc = 5
    /\ clvl_cmd.arg = <<"5">>

\* C12 (as stated): for a network-info reply ending in ,"310","410" the
\* handler stores the MCC-MNC 310410 and looks the APN up with it.
C12_JoinsLastTwoFields ==
    h.lastNet.txt = <<"+", "Q", ",", "\"", "3", "1", "0", "\"", ",", "\"",
                      "4", "1", "0", "\"">>
        => /\ minfo.mdm_mccmnc = <<"3", "1", "0", "4", "1", "0">>
           /\ h.lastNet.lookup = 310410

\* C12 (amended): the handler stores the last comma-separated field alone,
\* without its quotes, and looks the APN up with its decimal value: 410 for
\* a reply ending in ,"310","410" and 310410 for one ending in ,"310410".
C12_StoresLastField ==
    /\ h.lastNet.txt = <<"+", "Q", ",", "\"", "3", "1", "0", "\"", ",", "\"",
                         "4", "1", "0", "\"">>
          => /\ minfo.mdm_mccmnc = <<"4", "1", "0">>
             /\ h.lastNet.lookup = 410
    /\ h.lastNet.txt = <<"+", "Q", ",", "\"", "3", "1", "0", "4", "1", "0",
                         "\"">>
          => /\ minfo.mdm_mccmnc = <<"3", "1", "0", "4", "1", "0">>
             /\ h.lastNet.lookup = 310410

\* the reply ending in ,"310","410" has been handled
C12_Witness ==
    /\ h.lastNet.txt = <<"+", "Q", ",", "\"", "3", "1", "0", "\"", ",", "\"",
                         "4", "1", "0", "\"">>
    /\ minfo.mdm_mccmnc = <<"4", "1", "0">>

\* C13: the escape sequence +++ is written with the empty terminator, and
\* whenever gsm_ppp_stop is not between emptying the terminator and the end
\* of its exchange (so also after it has returned, with any result, early
\* or not) the terminator is the carriage return.
C13_TerminatorRestored ==
    /\ wire.cmd.fmt = "+++" => wire.eol = ""
    /\ pc.api # "stop_send" => cmdh.eol = "\r"

\* gsm_ppp_stop has returned after its exchange timed out
C13_Witness ==
    /\ api.op = "stop" /\ pc.api = "idle" /\ api.ret = ETIMEDOUT
    /\ wire.cmd.fmt = "+++" /\ wire.eol = ""
    /\ cmdh.eol = "\r"

\* C14: once gsm_ppp_restart has performed its start, and until the first
\* supervisor step of the new attempt runs, the bring-up state is Init, the
\* mux-enabled flag is false and the setup-done flag is false.
C14_RestartResets ==
    (api.op = "restart" /\ pc.api = "idle" /\ work.by = "api"
        /\ work.pending # "none" /\ work.handler = "gsm_configure")
    => (gsm.state = STATE_INIT /\ ~gsm.mux_enabled /\ ~gsm.setup_done)

\* the supervisor's exchange at one of the positions `at` ends now with an
\* error reply or a timeout
FinStepFails(at) ==
    /\ pc.wq \in at
    /\ snd["wq"].phase = "wait"
    /\ snd'["wq"] # snd["wq"]
    /\ IsErr(SendRet)

\* the run ends without marking setup done, without activating the carrier,
\* and the routine is resubmitted after the 1-second interval
FinRunEndsRescheduled ==
    /\ pc'.wq = "idle"
    /\ work'.pending = "K_SECONDS(1)"
    /\ gsm'.setup_done = gsm.setup_done
    /\ ppp' = ppp

\* C15 (as stated): in gsm_finalize_connection the failure of operator
\* selection, of a command of the configuration sequence, of the attach
\* query or of the dial command ends the run, leaves setup-done and the
\* carrier alone and resubmits the routine after 1 second.
C15_AnyStepFailureReschedules ==
    [][FinStepFails({"fin_cops", "fin_setup", "fin_cgatt", "fin_dial"})
         => FinRunEndsRescheduled]_vars

\* C15 (amended): the failure of a command of the configuration sequence, of
\* the attach query or of the dial command ends the run, leaves setup-done
\* and the carrier alone and resubmits the routine after 1 second; the
\* failure of operator selection is ignored and the run goes on with the
\* first command of the configuration sequence.
C15_StepFailureReschedules ==
    [][/\ FinStepFails({"fin_setup", "fin_cgatt", "fin_dial"})
            => FinRunEndsRescheduled
       /\ FinStepFails({"fin_cops"})
            => /\ pc'.wq = "fin_setup"
               /\ snd'["wq"].cmd = setup_cmds[1].send
               /\ work' = work]_vars

\* the dial command has failed and the routine waits for its resubmission
C15_Witness ==
    /\ h.lastDone.ctx = "wq" /\ h.lastDone.cmd.fmt = "ATD*99#"
    /\ IsErr(h.lastDone.ret)
    /\ pc.wq = "idle" /\ work.pending = "K_SECONDS(1)"
    /\ ~gsm.setup_done /\ ~ppp.carrier

\* C16: the dial command is sent, and then setup-done marked and the carrier
\* activated, only in a run whose attach query was answered by a +CGATT
\* value equal to 1; after any other value the run sends no dial command.
\* (h.att is what on_cmd_atcmdinfo_attached has seen since the attach query
\* of the current run was started.)
C16_DialOnlyWhenAttached ==
    pc.wq = "fin_dial" => h.att = "one"

\* C17: every step that changes a field of minfo (manufacturer, model,
\* revision, IMEI, APN, MCC-MNC) is a step of the RX thread dispatching a
\* line; no call of a public entry point (which changes the record of the
\* application's calls) changes one.
C17_IdentityWrittenByRxOnly ==
    [][minfo' # minfo => api' = api]_vars

\* C18: when the PPP device is absent at the carrier activation, the session
\* is not left with setup marked done, the carrier never activated and
\* nothing pending: a further run of the routine is scheduled.
C18_AbsentDeviceRetried ==
    (~ppp.present /\ gsm.setup_done /\ ~ppp.carrier /\ pc.wq = "idle")
    => work.pending # "none"

\* C19: every field of minfo holds a text shorter than its buffer, so that
\* its terminator lies inside the buffer; in particular mdm_mccmnc holds at
\* most 6 characters, whatever the length of the last field of the line.
C19_IdentityTerminated ==
    /\ Len(minfo.mdm_manufacturer) < MDM_MANUFACTURER_LENGTH
    /\ Len(minfo.mdm_model) < MDM_MODEL_LENGTH
    /\ Len(minfo.mdm_revision) < MDM_REVISION_LENGTH
    /\ Len(minfo.mdm_imei) < MDM_IMEI_LENGTH
    /\ Len(minfo.mdm_apn) < MDM_APN_LENGTH
    /\ Len(minfo.mdm_mccmnc) < MDM_MCCMNC_LENGTH

\* C20: every command other than the escape sequence +++ is written to the
\* transport followed by the carriage return: the empty terminator of
\* gsm_ppp_stop is never in effect when the supervisor writes a command.
C20_CommandsEndWithCR ==
    wire.cmd.fmt # "+++" => wire.eol = "\r"

\* C21: whenever gsm_finalize_connection runs with mux_enabled true, the
\* bring-up state is STATE_DONE and the control, PPP and AT channel handles
\* have all been allocated.
C21_FinalizeAfterChannels ==
    (pc.wq \in {"fin_at", "fin_cops", "fin_setup", "fin_cgatt", "fin_dial",
                "fin_attest"}
        /\ MuxOn(gsm))
    => (gsm.state = STATE_DONE
        /\ gsm.control_dev /\ gsm.ppp_dev /\ gsm.at_dev)

\* C22: a step in which mux_attach_cb reports a channel disconnected (the
\* pending callback is delivered and counted as a failure of the mux)
\* submits no work: it neither makes mux_setup run for the next channel nor,
\* in STATE_DONE, makes it call gsm_finalize_connection.
C22_DisconnectedSchedulesNothing ==
    [][(mux'.cb # mux.cb /\ mux'.cb \subseteq mux.cb /\ h'.faults # h.faults)
         => work' = work]_vars

\* C23: every command the sequencer has written is nonempty; the volume step
\* (setup_cmds[6]) has written AT+CLVL=<level> with a level in 0..5 and the
\* PDP-context step (setup_cmds[15]) AT+CGDCONT=1,"IP","<apn>" with a
\* nonempty APN.
C23_SequencerCommandsWellFormed ==
    (pc.wq = "fin_setup" /\ snd["wq"].phase = "wait")
    => LET cmd == snd["wq"].cmd IN
       /\ cmd # EmptyCmd
       /\ setup_i = 6 =>
            /\ cmd.fmt = "AT+CLVL=%d"
            /\ \E level \in 0..5 : cmd.arg = <<Digits[level + 1]>>
       /\ setup_i = Len(setup_cmds) =>
            /\ cmd.fmt = "AT+CGDCONT=1,\"IP\",\"%s\""
            /\ cmd.arg # <<>>

\* C24: once gsm_ppp_stop has returned, and as long as no other public entry
\* point is called, the work queue starts no scheduled step (the pending
\* work item is not taken by gsm_configure or mux_setup).
C24_StopEndsRetrying ==
    [][(api.op = "stop" /\ pc.api = "idle" /\ api' = api)
         => ~(work.pending # "none" /\ work'.pending = "none")]_vars

====
